---- MODULE Spec2Model ----
(***************************************************************************)
(* MySolver (src/my_solver.py): a thin wrapper over z3.Solver.  The proxy  *)
(* forwards add/push/pop/check to a delegate solver `s`, keeps an          *)
(* assertion log, and on a Z3Exception raised by the delegate's check()    *)
(* rebuilds the delegate from the delegate's own assertions and scopes.    *)
(*                                                                         *)
(* The delegate (z3.Solver) is modelled by the Z* operators: its           *)
(* assertion vector, its scope stack, its parameters, and the answer of    *)
(* check() over a small integer domain for x.                              *)
(***************************************************************************)
EXTENDS Integers, Sequences, FiniteSets, TLC

\* ---------------------------------------------------------------- bounds
MaxLog == 2          \* add() calls that reach the log (the log never shrinks)
MaxScopes == 1       \* scopes the caller has open at a time
MaxRetries == 1      \* largest value assigned to num_retries

\* ------------------------------------------------------------ the inputs
\* Formulas over one integer x.  "True" is the Python bool True.
Z3Formulas == {"x > 0", "x < 0"}
PyBool == "True"
Formulas == Z3Formulas \cup {PyBool}

\* ctx arguments: None (the global context) or a Context object.
CtxArgs == {"None", "c1", "c2"}
ProxyCtxs == {"None", "c1"}

\* The context a ctx argument denotes (None is the global main context).
CtxOf(c) == IF c = "None" THEN "main" ELSE c

\* The contexts a sort handed to Function() can live in.
SortCtxs == {CtxOf(c) : c \in CtxArgs}

\* An expression handed to add(): a z3 term built in the proxy's context, or
\* a Python bool.
Exprs == {[f |-> f] : f \in Formulas}

IsPyBool(expr) == expr.f = PyBool

\* Exceptions: the type and what tells one raised object from another.
ErrorTypes == {"Z3Exception", "KeyboardInterrupt"}
Exception(type, id) == [type |-> type, id |-> id]
Z3Exception(id) == Exception("Z3Exception", id)
AssertionError == Exception("AssertionError", "assert")

\* Keyword arguments of set().
Kwds == {"unsat_core=True", "unsat_core=False"}

\* --------------------------------------------------------- the delegate
NoTag == <<>>
\* Faulty variant of Tag: the tag string carries no running number.
TagUnnumbered(f, n) == <<f, 0>>

\* The tag string of a tracked assertion: str(expr) + "  :" + n.
Tag(f, n) == <<f, n>>

\* A fresh z3.Solver: no assertions, no scopes, default parameters, no core.
ZNew == [asserts |-> <<>>, scopes |-> <<>>,
         params |-> [unsat_core |-> "default"], core |-> {}]

\* Solver.add(e): e is a plain formula (tag = NoTag) or Implies(tag, f).
ZAdd(d, e) ==
    [d EXCEPT !.asserts = Append(@, [f |-> e.f, tag |-> e.tag, tracked |-> FALSE])]

RECURSIVE ZAddAll(_, _)
ZAddAll(d, es) ==
    IF es = <<>> THEN d ELSE ZAddAll(ZAdd(d, Head(es)), Tail(es))

\* Solver.assert_and_track(f, p): asserts Implies(p, f) and assumes p.
ZAssertAndTrack(d, f, p) ==
    [d EXCEPT !.asserts = Append(@, [f |-> f, tag |-> p, tracked |-> TRUE])]

ZPush(d) == [d EXCEPT !.scopes = Append(@, Len(d.asserts))]

ZNumScopes(d) == Len(d.scopes)

\* Solver.pop(): drops the assertions (and assumptions) of the last scope.
ZPop(d) ==
    [d EXCEPT !.asserts = SubSeq(@, 1, d.scopes[Len(d.scopes)]),
              !.scopes = SubSeq(@, 1, Len(d.scopes) - 1)]

\* Solver.assertions(): a tracked assertion is listed as Implies(tag, f).
ZAssertions(d) ==
    [i \in 1..Len(d.asserts) |-> [f |-> d.asserts[i].f, tag |-> d.asserts[i].tag]]

ZSet(d, kw) ==
    CASE kw = "unsat_core=True"  -> [d EXCEPT !.params.unsat_core = "True"]
      [] kw = "unsat_core=False" -> [d EXCEPT !.params.unsat_core = "False"]

\* The values of x the engine searches.
Dom == {-1, 0, 1}

Holds(f, x) ==
    CASE f = "x > 0" -> x > 0
      [] f = "x < 0" -> x < 0
      [] OTHER       -> TRUE

\* An assertion constrains x when it is a plain formula, or Implies(p, f)
\* with p assumed; Implies(p, f) with p free is satisfied by p = false.
Enforced(e) == e.tag = NoTag \/ e.tracked

\* The answer of Solver.check() when it does not fault; the engine answers
\* unknown when it gives up (a resource limit).
ZCheck(d, giveup) ==
    LET act == {i \in 1..Len(d.asserts) : Enforced(d.asserts[i])}
    IN  IF giveup THEN "unknown"
        ELSE IF \E x \in Dom : \A i \in act : Holds(d.asserts[i].f, x)
        THEN "sat"
        ELSE "unsat"

\* The tags the delegate can report in an unsat core: its assumptions.
ZTrackedTags(d) ==
    {d.asserts[i].tag : i \in {j \in 1..Len(d.asserts) : d.asserts[j].tracked}}

\* The cores Solver.check() may leave in the delegate: after an unsat answer
\* some of the assumptions that are unsatisfiable together with the plain
\* assertions; after any other answer none.
ZCores(d, giveup) ==
    IF ZCheck(d, giveup) # "unsat" THEN {{}}
    ELSE {c \in SUBSET ZTrackedTags(d) :
            ~ \E x \in Dom : \A i \in 1..Len(d.asserts) :
                  (d.asserts[i].tag = NoTag
                     \/ (d.asserts[i].tracked /\ d.asserts[i].tag \in c))
                  => Holds(d.asserts[i].f, x)}

\* Solver.unsat_core(): the core the last check() left.
ZUnsatCore(d) == d.core

\* ------------------------------------------------------------ the state
VARIABLES
    ctx,              \* self.ctx
    s,                \* self.s, the delegate
    num_constraints,  \* self.num_constraints
    track_unsat,      \* self.track_unsat
    assertion_list,   \* self.assertion_list
    warn_undeclared,  \* self.warn_undeclared
    num_retries,      \* self.num_retries
    pc,               \* "idle", or "check" inside check()'s loop
    attempt,          \* check()'s local `attempt`
    ret,              \* outcome of the last call: what it returned or raised
    added,            \* history: the formulas added and not popped, by scope
    thrown,           \* history: the faults the delegate threw in this check()
    nrecreate,        \* history: recreate_solver() calls in this check()
    logged,           \* the lines check() wrote to the logger in this call
    s_entry,          \* history: the delegate when the last check() was called
    nlost             \* history: scopes the delegate lost to recreations that raised

vars == <<ctx, s, num_constraints, track_unsat, assertion_list,
          warn_undeclared, num_retries, pc, attempt, ret, added, thrown,
          nrecreate, logged, s_entry, nlost>>

proxy == <<ctx, s, num_constraints, track_unsat, assertion_list,
           warn_undeclared, num_retries>>

Return(op, v) == [op |-> op, kind |-> "return", val |-> v]
\* A call that returned None.
Done == Return("call", "None")
Raise(op, e) == [op |-> op, kind |-> "raise", val |-> e]

\* History bookkeeping of a call other than check().
NotChecking == /\ attempt' = 0
               /\ thrown' = <<>>
               /\ nrecreate' = 0
               /\ logged' = <<>>
               /\ s_entry' = ZNew
               /\ pc' = "idle"

\* MySolver.__init__(ctx)
__init__(c) ==
    /\ ctx = c
    /\ s = ZNew
    /\ num_constraints = 0
    /\ track_unsat = FALSE
    /\ assertion_list = <<>>
    /\ warn_undeclared = TRUE
    /\ num_retries = 1
    /\ pc = "idle"
    /\ attempt = 0
    /\ ret = Done
    /\ added = << <<>> >>
    /\ thrown = <<>>
    /\ nrecreate = 0
    /\ logged = <<>>
    /\ s_entry = ZNew
    /\ nlost = 0

\* MySolver(): the default argument ctx=None.
Init == __init__("None")

\* The values the caller assigns to warn_undeclared: the warning is switched
\* off (True is the value __init__ leaves).
WarnValues == {FALSE}

\* The caller assigns the public attribute warn_undeclared.
SetWarnUndeclared(b) ==
    /\ pc = "idle"
    /\ warn_undeclared' = b
    /\ ret' = Done
    /\ NotChecking
    /\ UNCHANGED <<ctx, s, num_constraints, track_unsat, assertion_list,
                   num_retries, added, nlost>>

\* The caller assigns the public attribute num_retries.
SetNumRetries(n) ==
    /\ pc = "idle"
    /\ num_retries' = n
    /\ ret' = Done
    /\ NotChecking
    /\ UNCHANGED <<ctx, s, num_constraints, track_unsat, assertion_list,
                   warn_undeclared, added, nlost>>

\* MySolver.check_expr: TRUE when it returns True, FALSE when its assert fails.
check_expr(expr) ==
    IF IsPyBool(expr) THEN TRUE ELSE ~warn_undeclared

\* The history after a successful add of formula f under tag t.
AddedAppend(f, t) ==
    [added EXCEPT ![Len(added)] = Append(@, [f |-> f, tag |-> t])]

\* MySolver.add(expr).  On the tracked path the delegate's assert_and_track
\* rejects a Python bool ("Boolean expression expected") after the log append.
Add(expr) ==
    /\ pc = "idle"
    /\ Len(assertion_list) < MaxLog
    /\ NotChecking
    /\ UNCHANGED <<ctx, track_unsat, warn_undeclared, num_retries>>
    /\ IF ~check_expr(expr)
       THEN /\ ret' = Raise("add", AssertionError)
            /\ UNCHANGED <<s, num_constraints, assertion_list, added, nlost>>
       ELSE /\ assertion_list' = Append(assertion_list, expr)
            /\ IF track_unsat
               THEN IF IsPyBool(expr)
                    THEN /\ ret' = Raise("add", Z3Exception("add"))
                         /\ UNCHANGED <<s, num_constraints, added, nlost>>
                    ELSE /\ s' = ZAssertAndTrack(s, expr.f,
                                                 Tag(expr.f, num_constraints))
                         /\ num_constraints' = num_constraints + 1
                         /\ added' = AddedAppend(expr.f,
                                                 Tag(expr.f, num_constraints))
                         /\ ret' = Return("add", "None")
                         /\ UNCHANGED nlost
               ELSE /\ s' = ZAdd(s, [f |-> expr.f, tag |-> NoTag])
                    /\ added' = AddedAppend(expr.f, NoTag)
                    /\ ret' = Return("add", "None")
                    /\ UNCHANGED <<num_constraints, nlost>>

\* Faulty variant of Set: track_unsat is assigned the value of the keyword.
SetAssigningFlag(kw) ==
    /\ pc = "idle"
    /\ track_unsat' = (kw = "unsat_core=True")
    /\ s' = ZSet(s, kw)
    /\ ret' = Done
    /\ NotChecking
    /\ UNCHANGED <<ctx, num_constraints, assertion_list, warn_undeclared,
                   num_retries, added, nlost>>

\* MySolver.set(**kwds)
Set(kw) ==
    /\ pc = "idle"
    /\ track_unsat' = (track_unsat \/ kw = "unsat_core=True")
    /\ s' = ZSet(s, kw)
    /\ ret' = Done
    /\ NotChecking
    /\ UNCHANGED <<ctx, num_constraints, assertion_list, warn_undeclared,
                   num_retries, added, nlost>>

\* MySolver.push(); the caller has at most MaxScopes scopes open.
Push ==
    /\ pc = "idle"
    /\ Len(added) - 1 < MaxScopes
    /\ s' = ZPush(s)
    /\ added' = Append(added, <<>>)
    /\ ret' = Return("push", "None")
    /\ NotChecking
    /\ UNCHANGED <<ctx, num_constraints, track_unsat, assertion_list,
                   warn_undeclared, num_retries, nlost>>

\* Faulty variant of Pop: the proxy restarts its tag counter when a scope is
\* popped.
PopResetsCounter ==
    /\ pc = "idle"
    /\ NotChecking
    /\ UNCHANGED <<ctx, track_unsat, assertion_list, warn_undeclared,
                   num_retries, nlost>>
    /\ IF ZNumScopes(s) = 0
       THEN /\ ret' = Raise("pop", Z3Exception("pop"))
            /\ UNCHANGED <<s, added, num_constraints>>
       ELSE /\ s' = ZPop(s)
            /\ num_constraints' = 0
            /\ added' = SubSeq(added, 1, Len(added) - 1)
            /\ ret' = Return("pop", "None")

\* MySolver.pop(): the delegate raises when there is no scope to pop.
Pop ==
    /\ pc = "idle"
    /\ NotChecking
    /\ UNCHANGED <<ctx, num_constraints, track_unsat, assertion_list,
                   warn_undeclared, num_retries, nlost>>
    /\ IF ZNumScopes(s) = 0
       THEN /\ ret' = Raise("pop", Z3Exception("pop"))
            /\ UNCHANGED <<s, added>>
       ELSE /\ s' = ZPop(s)
            /\ added' = SubSeq(added, 1, Len(added) - 1)
            /\ ret' = Return("pop", "None")

\* Faulty variant of Caught: a bare `except` that catches every exception.
CaughtAny(e) == e.type \in ErrorTypes

\* The exceptions check()'s `except Z3Exception` clause catches.
Caught(e) == e.type = "Z3Exception"

\* Faulty variant of WithinBudget: one retry too many.
WithinBudgetOffByOne(a) == a <= num_retries + 1

\* check()'s test `attempt <= self.num_retries`.
WithinBudget(a) == a <= num_retries

\* Faulty variant of Reraised: the fault is wrapped in a new exception.
ReraisedWrapped(e) == Exception("RuntimeError", e.id)

\* check()'s `raise e`: the exception object that was caught.
Reraised(e) == e

\* recreate_solver's pop loop: the delegate after k pops.
RECURSIVE PopN(_, _)
PopN(d, k) == IF k = 0 THEN d ELSE PopN(ZPop(d), k - 1)

\* recreate_solver's pop loop: len(self.s.assertions()) after each of k pops.
RECURSIVE PopCounts(_, _)
PopCounts(d, k) ==
    IF k = 0 THEN <<>>
    ELSE <<Len(ZAssertions(ZPop(d)))>> \o PopCounts(ZPop(d), k - 1)

Reverse(q) == [i \in 1..Len(q) |-> q[Len(q) + 1 - i]]

\* Faulty variant of nassertions_at_scope: the list is not reversed.
nassertions_at_scope_unreversed(d) ==
    <<Len(ZAssertions(d))>> \o PopCounts(d, ZNumScopes(d))

\* recreate_solver's nassertions_at_scope (index 1 here is Python's index 0).
nassertions_at_scope(d) ==
    Reverse(<<Len(ZAssertions(d))>> \o PopCounts(d, ZNumScopes(d)))

\* recreate_solver's replay loop, for i in range(i, ns+1): push, then add
\* ast[nas[i-1]:nas[i]].
RECURSIVE Replay(_, _, _, _, _)
Replay(d, ast, nas, i, ns) ==
    IF i > ns THEN d
    ELSE Replay(ZAddAll(ZPush(d), SubSeq(ast, nas[i] + 1, nas[i + 1])),
                ast, nas, i + 1, ns)

\* Faulty variant of recreate_solver: the new delegate is given the old
\* delegate's parameters.
recreate_solver_copying_params(d) ==
    LET ast == ZAssertions(d)
        ns  == ZNumScopes(d)
        nas == nassertions_at_scope(d)
    IN  [Replay(ZAddAll(ZNew, SubSeq(ast, 1, nas[1])), ast, nas, 1, ns)
            EXCEPT !.params = d.params]

\* MySolver.recreate_solver: the new delegate built from delegate d.
recreate_solver(d) ==
    LET ast == ZAssertions(d)
        ns  == ZNumScopes(d)
        nas == nassertions_at_scope(d)
    IN  Replay(ZAddAll(ZNew, SubSeq(ast, 1, nas[1])), ast, nas, 1, ns)

\* Faulty variant of CheckStart: check() starts on a rebuilt delegate.
CheckStartOnRebuiltDelegate ==
    /\ pc = "idle"
    /\ pc' = "check"
    /\ attempt' = 0
    /\ thrown' = <<>>
    /\ nrecreate' = 0
    /\ logged' = <<>>
    /\ s_entry' = s
    /\ s' = recreate_solver(s)
    /\ ret' = Return("check", "pending")
    /\ UNCHANGED <<ctx, num_constraints, track_unsat, assertion_list,
                   warn_undeclared, num_retries, added, nlost>>

\* MySolver.check(), entry: attempt = 0.
CheckStart ==
    /\ pc = "idle"
    /\ pc' = "check"
    /\ attempt' = 0
    /\ thrown' = <<>>
    /\ nrecreate' = 0
    /\ logged' = <<>>
    /\ s_entry' = s
    /\ ret' = Return("check", "pending")
    /\ UNCHANGED <<proxy, added, nlost>>

\* The lines check() logs when the delegate's check raised a Z3Exception:
\* "threw error after t secs on attempt n", the exception, and, when it
\* retries, "Recreating and restarting solver".
FaultLines(retry) ==
    IF retry THEN <<"threw", "exception", "recreating">>
             ELSE <<"threw", "exception">>

\* The line check() logs before returning: "Solver returned in t secs.",
\* written only after an earlier attempt faulted.
ReturnLines(a) == IF a > 1 THEN <<"returned in">> ELSE <<>>

\* Faulty variant of CheckAnswer: an unknown answer is treated like a fault
\* and retried on a recreated delegate while the budget lasts.
CheckAnswerRetriesUnknown(giveup, core) ==
    /\ pc = "check"
    /\ core \in ZCores(s, giveup)
    /\ attempt' = attempt + 1
    /\ IF ZCheck(s, giveup) = "unknown" /\ WithinBudget(attempt')
       THEN /\ s' = recreate_solver(s)
            /\ nrecreate' = nrecreate + 1
            /\ pc' = "check"
            /\ UNCHANGED <<ctx, num_constraints, track_unsat, assertion_list,
                           warn_undeclared, num_retries, ret, added, nlost, thrown,
                           logged, s_entry>>
       ELSE /\ ret' = Return("check", ZCheck(s, giveup))
            /\ s' = [s EXCEPT !.core = core]
            /\ logged' = logged \o ReturnLines(attempt')
            /\ pc' = "idle"
            /\ UNCHANGED <<ctx, num_constraints, track_unsat, assertion_list,
                           warn_undeclared, num_retries, added, nlost, thrown,
                           nrecreate, s_entry>>

\* One iteration of check()'s loop in which the delegate's check() answers
\* and leaves its core in the delegate.
CheckAnswer(giveup, core) ==
    /\ pc = "check"
    /\ core \in ZCores(s, giveup)
    /\ attempt' = attempt + 1
    /\ ret' = Return("check", ZCheck(s, giveup))
    /\ s' = [s EXCEPT !.core = core]
    /\ logged' = logged \o ReturnLines(attempt')
    /\ pc' = "idle"
    /\ UNCHANGED <<ctx, num_constraints, track_unsat, assertion_list,
                   warn_undeclared, num_retries, added, nlost, thrown,
                   nrecreate, s_entry>>

\* One iteration of check()'s loop in which the delegate's check() raises an
\* exception of the given type (a new object on every attempt).
\* rfail = -1: recreate_solver (if called) completes; rfail = k >= 0: a
\* delegate call inside recreate_solver raises after k scopes were popped.
CheckRaises(type, rfail) ==
  LET e == Exception(type, attempt + 1) IN
    /\ pc = "check"
    /\ attempt' = attempt + 1
    /\ UNCHANGED <<ctx, num_constraints, track_unsat, assertion_list,
                   warn_undeclared, num_retries, s_entry>>
    /\ IF ~Caught(e)
       THEN /\ rfail = -1
            /\ ret' = Raise("check", e)
            /\ pc' = "idle"
            /\ UNCHANGED <<s, thrown, nrecreate, added, nlost, logged>>
       ELSE /\ thrown' = Append(thrown, e)
            /\ logged' = logged \o FaultLines(WithinBudget(attempt'))
            /\ IF WithinBudget(attempt')
               THEN /\ nrecreate' = nrecreate + 1
                    /\ rfail <= ZNumScopes(s)
                    /\ IF rfail = -1
                       THEN /\ s' = recreate_solver(s)
                            /\ pc' = "check"
                            /\ UNCHANGED <<ret, added, nlost>>
                       ELSE /\ s' = PopN(s, rfail)
                            /\ pc' = "idle"
                            /\ ret' = Raise("check", Z3Exception("recreate"))
                            /\ nlost' = nlost + rfail
                            /\ UNCHANGED added
               ELSE /\ rfail = -1
                    /\ ret' = Raise("check", Reraised(e))
                    /\ pc' = "idle"
                    /\ UNCHANGED <<s, nrecreate, added, nlost>>

\* MySolver.assertions()
Assertions ==
    /\ pc = "idle"
    /\ ret' = Return("assertions", ZAssertions(s))
    /\ NotChecking
    /\ UNCHANGED <<proxy, added, nlost>>

\* MySolver.deprecated_check(): one call of the delegate's check, outside
\* the retry loop, which answers and leaves its core in the delegate.
DeprecatedCheckAnswer(giveup, core) ==
    /\ pc = "idle"
    /\ core \in ZCores(s, giveup)
    /\ ret' = Return("deprecated_check", ZCheck(s, giveup))
    /\ s' = [s EXCEPT !.core = core]
    /\ NotChecking
    /\ UNCHANGED <<ctx, num_constraints, track_unsat, assertion_list,
                   warn_undeclared, num_retries, added, nlost>>

\* MySolver.deprecated_check() when the delegate's check raises: the
\* exception comes out as it is, with no retry and no recreation.
DeprecatedCheckRaises(type) ==
    /\ pc = "idle"
    /\ ret' = Raise("deprecated_check", Exception(type, 1))
    /\ NotChecking
    /\ UNCHANGED <<proxy, added, nlost>>

\* MySolver.recreate_solver(), called by the caller.  rfail = -1: it
\* completes; rfail = k >= 0: a delegate call inside it raises after k scopes
\* were popped.
RecreateSolver(rfail) ==
    /\ pc = "idle"
    /\ rfail <= ZNumScopes(s)
    /\ IF rfail = -1
       THEN /\ s' = recreate_solver(s)
            /\ ret' = Return("recreate_solver", "None")
            /\ UNCHANGED nlost
       ELSE /\ s' = PopN(s, rfail)
            /\ ret' = Raise("recreate_solver", Z3Exception("recreate"))
            /\ nlost' = nlost + rfail
    /\ NotChecking
    /\ UNCHANGED <<ctx, num_constraints, track_unsat, assertion_list,
                   warn_undeclared, num_retries, added>>

\* MySolver.unsat_core(): the delegate's core.
UnsatCore ==
    /\ pc = "idle"
    /\ ret' = Return("unsat_core", ZUnsatCore(s))
    /\ NotChecking
    /\ UNCHANGED <<proxy, added, nlost>>

\* MySolver.Real / Int / Bool (name, ctx): assert ctx == self.ctx.
Declare(kind, c) ==
    /\ pc = "idle"
    /\ ret' = IF c = ctx THEN Return(kind, CtxOf(c))
                         ELSE Raise(kind, AssertionError)
    /\ NotChecking
    /\ UNCHANGED <<proxy, added, nlost>>

RealTerm(c) == Declare("Real", c)
IntTerm(c) == Declare("Int", c)
BoolTerm(c) == Declare("Bool", c)

\* MySolver.Function(name, t1, t2): no assert; z3.Function takes the context
\* of the range sort t2.
FunctionTerm(t1, t2) ==
    /\ pc = "idle"
    /\ ret' = Return("Function", t2)
    /\ NotChecking
    /\ UNCHANGED <<proxy, added, nlost>>

\* The calls of the proxy.  Inside check() a delegate call of
\* recreate_solver() raises, if it does, before the first scope is popped
\* (rfail = 0), and a recreate_solver() called by the caller completes;
\* FaultNext below adds the runs in which it raises elsewhere.
Next ==
    \/ \E b \in WarnValues : SetWarnUndeclared(b)
    \/ \E n \in 0..MaxRetries : SetNumRetries(n)
    \/ \E expr \in Exprs : Add(expr)
    \/ \E kw \in Kwds : Set(kw)
    \/ Push
    \/ Pop
    \/ CheckStart
    \/ \E giveup \in BOOLEAN, core \in SUBSET ZTrackedTags(s) :
          CheckAnswer(giveup, core)
    \/ \E type \in ErrorTypes, rfail \in -1..0 : CheckRaises(type, rfail)
    \/ \E giveup \in BOOLEAN, core \in SUBSET ZTrackedTags(s) :
          DeprecatedCheckAnswer(giveup, core)
    \/ \E type \in ErrorTypes : DeprecatedCheckRaises(type)
    \/ RecreateSolver(-1)
    \/ Assertions
    \/ UnsatCore

Spec == Init /\ [][Next]_vars

\* The same calls, and the runs in which a delegate call inside
\* recreate_solver() raises after one or more scopes were popped, or raises
\* in a recreate_solver() called by the caller.
FaultNext ==
    \/ Next
    \/ \E type \in ErrorTypes, rfail \in 1..MaxScopes :
          CheckRaises(type, rfail)
    \/ \E rfail \in 0..MaxScopes : RecreateSolver(rfail)

FaultSpec == Init /\ [][FaultNext]_vars

\* check() runs its loop without yielding: while it is inside the loop and
\* the delegate's call terminates, the next iteration happens.
CheckStep ==
    \/ \E giveup \in BOOLEAN, core \in SUBSET ZTrackedTags(s) :
          CheckAnswer(giveup, core)
    \/ \E type \in ErrorTypes, rfail \in -1..MaxScopes :
          CheckRaises(type, rfail)

\* check() on a proxy whose flags, apart from num_retries, are the ones
\* __init__ left.
LiveNext ==
    \/ \E n \in 0..MaxRetries : SetNumRetries(n)
    \/ \E expr \in Exprs : Add(expr)
    \/ Push
    \/ Pop
    \/ \E rfail \in -1..MaxScopes : RecreateSolver(rfail)
    \/ \E giveup \in BOOLEAN, core \in SUBSET ZTrackedTags(s) :
          DeprecatedCheckAnswer(giveup, core)
    \/ \E type \in ErrorTypes : DeprecatedCheckRaises(type)
    \/ CheckStart
    \/ CheckStep

LiveSpec == Init /\ [][LiveNext]_vars /\ WF_vars(CheckStep)

\* The term-construction helpers touch nothing but their result; they are
\* explored together with the calls that change the proxy's configuration.
TermNext ==
    \/ \E c \in CtxArgs : RealTerm(c)
    \/ \E c \in CtxArgs : IntTerm(c)
    \/ \E c \in CtxArgs : BoolTerm(c)
    \/ \E t1 \in SortCtxs, t2 \in SortCtxs : FunctionTerm(t1, t2)
    \/ \E b \in WarnValues : SetWarnUndeclared(b)
    \/ \E n \in 0..MaxRetries : SetNumRetries(n)
    \/ \E kw \in Kwds : Set(kw)
    \/ Push
    \/ Pop
    \/ \E rfail \in -1..MaxScopes : RecreateSolver(rfail)

\* MySolver(ctx=c)
TermInit == \E c \in ProxyCtxs : __init__(c)

TermSpec == TermInit /\ [][TermNext]_vars

\* ------------------------------------------------------------ the claims
\* All formulas of the scopes of a history, in order.
RECURSIVE Flatten(_)
Flatten(h) == IF h = <<>> THEN <<>> ELSE Head(h) \o Flatten(Tail(h))

\* The scope boundaries of a history: the number of formulas below each push.
ScopeMarks(h) ==
    [i \in 1..(Len(h) - 1) |-> Len(Flatten(SubSeq(h, 1, i)))]

\* A delegate built afresh from a history: the same formulas, added the way
\* add() adds them, in the same scopes.
RECURSIVE FreshScope(_, _)
FreshScope(d, es) ==
    IF es = <<>> THEN d
    ELSE FreshScope(IF Head(es).tag = NoTag
                    THEN ZAdd(d, Head(es))
                    ELSE ZAssertAndTrack(d, Head(es).f, Head(es).tag),
                    Tail(es))

RECURSIVE FreshFrom(_, _)
FreshFrom(d, h) ==
    IF h = <<>> THEN d
    ELSE FreshFrom(FreshScope(ZPush(d), Head(h)), Tail(h))

Fresh(h) == FreshFrom(FreshScope(ZNew, Head(h)), Tail(h))

CheckReturned == pc = "idle" /\ ret.op = "check" /\ ret.kind = "return"
CheckRaised == pc = "idle" /\ ret.op = "check" /\ ret.kind = "raise"

\* No recreation has raised after popping scopes of the delegate: the calls
\* so far are add, push, pop, set, attribute assignments, queries, checks
\* and completed recreations.
NoScopeLost == nlost = 0

\* Two delegates with the same assertions (tracked or not), scopes and
\* parameters.
SameDelegate(d1, d2) ==
    /\ d1.asserts = d2.asserts
    /\ d1.scopes = d2.scopes
    /\ d1.params = d2.params

\* C1: after a check() that returned, assertions() lists exactly the formulas
\* added and not yet popped, in the order they were added (a formula added
\* under tracking is listed by the delegate as Implies(tag, formula)), and the
\* delegate has the same scopes with the same formulas in each, whether or
\* not recreate_solver() ran during that check().
C1_ListingMatchesAdded ==
    (CheckReturned /\ NoScopeLost) =>
        /\ ZAssertions(s) = Flatten(added)
        /\ ZNumScopes(s) = Len(added) - 1
        /\ s.scopes = ScopeMarks(added)

\* C1 witness: a check() returned after a recreation, with an open scope
\* and formulas below and inside it.
C1_Witness ==
    /\ CheckReturned
    /\ NoScopeLost
    /\ nrecreate >= 1
    /\ ZNumScopes(s) = 1
    /\ Len(added[1]) = 1
    /\ Len(added[2]) = 1

\* C2 (as claimed): a check() that returned after N >= 1 faults and
\* recreations gives the answer a freshly built delegate holding the same
\* added formulas in the same scopes would give (the engine giving up in
\* both or in neither).
C2_RecreationTransparent ==
    (CheckReturned /\ NoScopeLost /\ nrecreate >= 1) =>
        ret.val = ZCheck(Fresh(added), ret.val = "unknown")

\* C3: when the delegate's check faults on every attempt, check() does not
\* return a result: it raises a Z3Exception, and when every recreation
\* completed it raises on attempt num_retries + 1 the very exception caught
\* on that attempt.
C3_BudgetExceededReraises ==
    (pc = "idle" /\ ret.op = "check" /\ attempt >= 1 /\ Len(thrown) = attempt) =>
        /\ ret.kind = "raise"
        /\ ret.val.type = "Z3Exception"
        /\ (nrecreate < attempt =>
               /\ attempt = num_retries + 1
               /\ ret.val = thrown[attempt])

\* C3 witness: two faults with num_retries = 1; the second one is raised.
C3_Witness ==
    /\ CheckRaised
    /\ num_retries = 1
    /\ attempt = 2
    /\ Len(thrown) = 2
    /\ nrecreate = 1
    /\ ret.val = thrown[2]

\* C4 (as claimed): after any sequence of add, push, pop and check calls
\* (set() never called), the assertion log holds exactly the delegate's
\* formulas, one entry per delegate assertion.
C4_LogMirrorsDelegate ==
    (~track_unsat /\ s.params.unsat_core = "default") =>
        /\ Len(assertion_list) = Len(s.asserts)
        /\ \A i \in 1..Len(s.asserts) : assertion_list[i].f = s.asserts[i].f

\* C5 (as claimed): add() never raises, whatever the formula and the proxy's
\* configuration.
C5_AddNeverRaises ==
    ~(ret.op = "add" /\ ret.kind = "raise")

\* C6 (as claimed): with tracking enabled and every formula in the open
\* scopes added under tracking, every assertion the delegate holds is
\* tracked under its own tag, no two assertions share a tag, and a reported
\* core holds only tags that add() assigned to formulas passed to it.
C6_TrackedUnderUniqueTags ==
    (track_unsat /\ \A i \in 1..Len(Flatten(added)) : Flatten(added)[i].tag # NoTag) =>
        /\ \A i \in 1..Len(s.asserts) :
               s.asserts[i].tracked /\ s.asserts[i].tag # NoTag
        /\ \A i, j \in 1..Len(s.asserts) :
               i # j => s.asserts[i].tag # s.asserts[j].tag
        /\ (ret.op = "unsat_core" =>
               \A p \in ret.val :
                   /\ p[2] < num_constraints
                   /\ \E k \in 1..Len(assertion_list) : assertion_list[k].f = p[1])

TermHelpers == {"Real", "Int", "Bool", "Function"}

\* C7 (as claimed): a term-construction helper (Int, Real, Bool, Function)
\* never constructs a term in a context other than the proxy's own: given
\* another context it raises.
C7_TermContextMismatchFatal ==
    (ret.op \in TermHelpers /\ ret.kind = "return") => ret.val = CtxOf(ctx)

\* C8: only Z3Exception is retried.  Every exception check() caught and
\* retried on is a Z3Exception; when the delegate's check raises another
\* error, that step ends check() raising that very error, with no
\* recreate_solver() call and the delegate left as it was.
C8_OtherErrorState ==
    /\ \A i \in 1..Len(thrown) : thrown[i].type = "Z3Exception"
    /\ nrecreate <= Len(thrown)
    /\ (CheckRaised /\ ret.val.type # "Z3Exception") =>
           /\ attempt = Len(thrown) + 1
           /\ nrecreate = Len(thrown)
           /\ ret.val = Exception(ret.val.type, attempt)

C8_OtherErrorStep ==
    (pc = "check" /\ ret'.kind = "raise" /\ ret'.val.type # "Z3Exception") =>
        /\ pc' = "idle"
        /\ s' = s
        /\ nrecreate' = nrecreate
        /\ thrown' = thrown

C8_OnlyEngineFaultsRetried ==
    [] C8_OtherErrorState /\ [][C8_OtherErrorStep]_vars

\* C8 witness: after one fault and recreation, the second attempt raised a
\* KeyboardInterrupt, which check() propagated.
C8_Witness ==
    /\ CheckRaised
    /\ ret.val.type = "KeyboardInterrupt"
    /\ attempt = 2
    /\ nrecreate = 1

\* C9 (as claimed): a check() that returns answers for the formulas of the
\* scopes that are open, as if the popped scopes had never been opened: with
\* x > 0 below a scope holding x < 0 the answer is unsat, and after pop() sat.
C9_ScopedAnswer ==
    (CheckReturned /\ NoScopeLost /\ ret.val # "unknown") =>
        ret.val = ZCheck(Fresh(added), FALSE)

\* C10: check() terminates.  Its loop invokes the delegate's check at most
\* num_retries + 1 times and recreate_solver() at most num_retries times;
\* with num_retries = 0 the first fault is raised with no recreation; every
\* iteration either ends check() by a return or a raise or uses up one
\* attempt; and a check() that is in its loop leaves it.
C10_Budget ==
    /\ attempt <= num_retries + 1
    /\ nrecreate <= num_retries
    /\ nrecreate <= attempt
    /\ (pc = "check" => attempt <= num_retries)
    /\ (num_retries = 0 /\ pc = "idle" /\ ret.op = "check" /\ thrown # <<>>) =>
           /\ ret.kind = "raise"
           /\ attempt = 1
           /\ nrecreate = 0
           /\ ret.val = thrown[1]

C10_Iteration ==
    pc = "check" =>
        /\ attempt' = attempt + 1
        /\ pc' = "idle" =>
              /\ ret'.op = "check"
              /\ \/ ret'.kind = "raise"
                 \/ ret'.kind = "return" /\ ret'.val \in {"sat", "unsat", "unknown"}

C10_CheckTerminates ==
    /\ [] C10_Budget
    /\ [][C10_Iteration]_vars
    /\ (pc = "check") ~> (pc = "idle")

\* C10 witness: with num_retries = 0 the first fault ended check().
C10_Witness ==
    /\ CheckRaised
    /\ num_retries = 0
    /\ attempt = 1
    /\ nrecreate = 0
    /\ thrown # <<>>

\* The answers of the delegate's check().
CheckResults == {"sat", "unsat", "unknown"}

\* The elapsed time of a check() reaches the caller: the value returned is
\* the delegate's answer alone, so the only place it can be read is the
\* "Solver returned in t secs." line of the log.
ElapsedReported == \E i \in 1..Len(logged) : logged[i] = "returned in"

\* C11 (as claimed): a check() that succeeds hands the caller the delegate's
\* answer together with the elapsed time.
C11_ResultWithElapsedTime ==
    CheckReturned => (ret.val \in CheckResults /\ ElapsedReported)

\* C11 (amended): a check() that succeeds returns the delegate's answer (sat,
\* unsat or unknown) of the attempt that did not fault, and nothing else: the
\* elapsed time is not returned, it is written to the log, and only when an
\* earlier attempt of that check() faulted.  An attempt on which the delegate
\* answers, unknown included, ends check() with that answer: the delegate is
\* not replaced and no recreation is counted.
C11_Returned ==
    CheckReturned =>
        /\ ret.val \in CheckResults
        /\ ret.val = ZCheck(s, ret.val = "unknown")
        /\ Len(thrown) = attempt - 1
        /\ nrecreate = attempt - 1
        /\ ElapsedReported <=> attempt > 1

C11_AnswerStep ==
    (pc = "check" /\ thrown' = thrown /\ ret'.kind = "return") =>
        /\ pc' = "idle"
        /\ ret'.op = "check"
        /\ ret'.val \in CheckResults
        /\ SameDelegate(s', s)
        /\ s'.core \in ZCores(s, ret'.val = "unknown")
        /\ nrecreate' = nrecreate

C11_ReturnsResultOnly ==
    [] C11_Returned /\ [][C11_AnswerStep]_vars

\* C11 witness: the first attempt answered unknown, check() returned it, and
\* nothing was logged.
C11_Witness ==
    /\ CheckReturned
    /\ ret.val = "unknown"
    /\ attempt = 1
    /\ nrecreate = 0
    /\ logged = <<>>

\* C12: push() and pop() do no bookkeeping of their own.  A push() opens a
\* scope of the delegate, a pop() closes the innermost one (the delegate
\* forgets the formulas of that scope) or raises the delegate's error when
\* none is open; the delegate's parameters and the proxy's assertion_list,
\* num_constraints, track_unsat, num_retries, warn_undeclared and ctx are the
\* same after the call as before it.
C12_ScopeCallStep ==
    (pc = "idle" /\ ret'.op \in {"push", "pop"}) =>
        /\ UNCHANGED <<assertion_list, num_constraints, track_unsat,
                       num_retries, warn_undeclared, ctx>>
        /\ s'.params = s.params
        /\ pc' = "idle"
        /\ ret'.op = "push" => s' = ZPush(s)
        /\ (ret'.op = "pop" /\ ret'.kind = "return") =>
              /\ ZNumScopes(s) > 0
              /\ s'.scopes = SubSeq(s.scopes, 1, Len(s.scopes) - 1)
              /\ s'.asserts = SubSeq(s.asserts, 1, s.scopes[Len(s.scopes)])
        /\ (ret'.op = "pop" /\ ret'.kind = "raise") =>
              /\ ZNumScopes(s) = 0
              /\ s' = s

C12_PushPopOnlyScopes == [][C12_ScopeCallStep]_vars

\* C12 witness: a pop() closed a scope that held a tracked formula; the log
\* and the tag counter still count that formula.
C12_Witness ==
    /\ ret = Return("pop", "None")
    /\ track_unsat
    /\ num_constraints = 1
    /\ Len(assertion_list) = 1
    /\ s.asserts = <<>>

\* A step of check() in which recreate_solver() is called.
RecreateCalled == pc = "check" /\ nrecreate' = nrecreate + 1

\* A step in which the caller calls recreate_solver().
RecreateDirect == pc = "idle" /\ ret'.op = "recreate_solver"

\* A step in which self.s is assigned a new delegate.
DelegateReplaced ==
    \/ RecreateCalled /\ pc' = "check"
    \/ RecreateDirect /\ ret'.kind = "return"

\* C13 (as claimed): a call of recreate_solver() has two outcomes.  Either it
\* completes and check() goes on with a delegate that lists the same
\* formulas in the same scopes, or it raises, check() ends at once with that
\* error, and the delegate the proxy is left with has lost none of its
\* scopes.
C13_RecreateStep ==
    RecreateCalled =>
        \/ /\ pc' = "check"
           /\ ZAssertions(s') = ZAssertions(s)
           /\ s'.scopes = s.scopes
        \/ /\ pc' = "idle"
           /\ ret' = Raise("check", Z3Exception("recreate"))
           /\ attempt' = attempt + 1
           /\ ZNumScopes(s') = ZNumScopes(s)
           /\ ZAssertions(s') = ZAssertions(s)

C13_RecreateAllOrNothing == [][C13_RecreateStep]_vars

\* C14 (as claimed): the assertion log is append-only outside recreation.  A
\* call of add() puts exactly one entry at the end of assertion_list, and a
\* step of any other operation that is not a recreation (push, pop, set,
\* unsat_core, assertions, an attribute assignment, a step of check() that
\* does not recreate) leaves the list as it was.
C14_LogStep ==
    /\ (pc = "idle" /\ ret'.op = "add") =>
           \E expr \in Exprs : assertion_list' = Append(assertion_list, expr)
    /\ (ret'.op # "add" /\ ~RecreateCalled /\ ~RecreateDirect) =>
           assertion_list' = assertion_list

C14_LogAppendOnly == [][C14_LogStep]_vars

\* The positions of the delegate's assertions that carry a tag.
Tagged(d) == {i \in 1..Len(d.asserts) : d.asserts[i].tag # NoTag}

\* C15: the number in the tag that add() assigns under unsat-core tracking
\* is strictly increasing over the proxy's lifetime.  The tags of the
\* formulas the delegate holds have numbers below num_constraints that grow
\* strictly in the order of addition; num_constraints never decreases; it
\* changes only in an add() that tags a formula, which uses its current
\* value as the number and then adds one; push, pop, set, check and
\* recreation leave it alone.
C15_TagsInOrder ==
    /\ \A i \in Tagged(s) : s.asserts[i].tag[2] < num_constraints
    /\ \A i, j \in Tagged(s) :
           i < j => s.asserts[i].tag[2] < s.asserts[j].tag[2]

C15_CounterStep ==
    /\ num_constraints' >= num_constraints
    /\ num_constraints' # num_constraints => ret' = Return("add", "None")
    /\ (pc = "idle" /\ ret' = Return("add", "None") /\ track_unsat) =>
           /\ num_constraints' = num_constraints + 1
           /\ Len(s'.asserts) = Len(s.asserts) + 1
           /\ s'.asserts[Len(s'.asserts)].tracked
           /\ s'.asserts[Len(s'.asserts)].tag[2] = num_constraints
    /\ (pc = "idle" /\ ret' = Return("add", "None") /\ ~track_unsat) =>
           num_constraints' = num_constraints

C15_TagNumbersIncrease ==
    [] C15_TagsInOrder /\ [][C15_CounterStep]_vars

\* C15 witness: a formula tagged 0 was popped, and the formula added after
\* the pop got the number 1.
C15_Witness ==
    /\ ret = Return("add", "None")
    /\ track_unsat
    /\ num_constraints = 2
    /\ Len(s.asserts) = 1
    /\ s.asserts[1].tracked
    /\ s.asserts[1].tag[2] = 1

\* C16: recreation discards every parameter given to the delegate through
\* set() and keeps the proxy's own flags.  A recreate_solver() that
\* completes, inside check() or called by the caller, leaves a delegate with
\* default parameters and no parameter of the old one, and leaves track_unsat,
\* num_constraints, num_retries, warn_undeclared, ctx and the log as they
\* were; an add() made while track_unsat is true goes through
\* assert_and_track whatever the delegate's unsat_core parameter is.
C16_RecreateStep ==
    DelegateReplaced =>
        /\ s'.params = ZNew.params
        /\ UNCHANGED <<track_unsat, num_constraints, num_retries,
                       warn_undeclared, ctx, assertion_list>>

C16_AddStep ==
    (pc = "idle" /\ ret' = Return("add", "None") /\ track_unsat) =>
        /\ s'.params = s.params
        /\ s'.asserts[Len(s'.asserts)].tracked

C16_RecreationDropsParams ==
    [][C16_RecreateStep /\ C16_AddStep]_vars

\* C16 witness: tracking is on, the recreated delegate has no unsat_core
\* parameter, and the add() that followed was tagged on it.
C16_Witness ==
    /\ ret = Return("add", "None")
    /\ track_unsat
    /\ s.params.unsat_core = "default"
    /\ s.asserts[Len(s.asserts)].tracked

\* check() raised because the retry budget was exhausted: the fault of the
\* last attempt came out.
BudgetExhausted ==
    /\ CheckRaised
    /\ thrown # <<>>
    /\ attempt = num_retries + 1
    /\ ret.val = thrown[Len(thrown)]

\* C17 (as claimed): when check() raises because the retry budget is
\* exhausted, the delegate the proxy is left with holds the same assertions
\* in the same scopes as the delegate held when check() was called, so that
\* what follows behaves as if the failed check() had not happened: the same
\* listing, the same scopes, the same answer to a check and the same tags
\* available to an unsat core.
C17_FailedCheckLeavesNoTrace ==
    BudgetExhausted =>
        /\ ZAssertions(s) = ZAssertions(s_entry)
        /\ s.scopes = s_entry.scopes
        /\ ZCheck(s, FALSE) = ZCheck(s_entry, FALSE)
        /\ ZTrackedTags(s) = ZTrackedTags(s_entry)

\* C18 (amended): a check() whose first delegate check does not fault
\* changes nothing in the proxy.  When check() has ended without having
\* caught a Z3Exception, the delegate has the parameters, scopes and
\* assertions check() was called with, and no recreation was counted; every
\* recreation counted goes with a Z3Exception that was caught.  No step of
\* check() changes assertion_list, num_constraints, track_unsat, num_retries,
\* warn_undeclared or ctx, and check() replaces the delegate only by calling
\* recreate_solver() after catching a Z3Exception.  Outside check() the
\* delegate is replaced when the caller calls recreate_solver() itself.
C18_NoFaultNoChange ==
    /\ (pc = "idle" /\ ret.op = "check" /\ thrown = <<>>) =>
           /\ SameDelegate(s, s_entry)
           /\ attempt = 1
           /\ nrecreate = 0
    /\ nrecreate <= Len(thrown)
    /\ \A i \in 1..Len(thrown) : thrown[i].type = "Z3Exception"

C18_CheckStep ==
    (pc = "check" \/ pc' = "check") =>
        /\ UNCHANGED <<assertion_list, num_constraints, track_unsat,
                       num_retries, warn_undeclared, ctx>>
        /\ ~SameDelegate(s', s) =>
              /\ RecreateCalled
              /\ Len(thrown') = Len(thrown) + 1

C18_CheckWithoutFaultIsPure ==
    [] C18_NoFaultNoChange /\ [][C18_CheckStep]_vars

\* C18 (as claimed): the above, and the delegate is replaced only inside a
\* check() in which a Z3Exception was caught.
C18_ReplacedOnlyAfterFault ==
    /\ [] C18_NoFaultNoChange
    /\ [][/\ C18_CheckStep
          /\ DelegateReplaced =>
                 /\ pc = "check"
                 /\ Len(thrown') = Len(thrown) + 1]_vars

\* C18 witness: a check() on a delegate with a tracked formula and the
\* unsat_core parameter returned at its first attempt; the delegate is the
\* one it was called with.
C18_Witness ==
    /\ CheckReturned
    /\ thrown = <<>>
    /\ attempt = 1
    /\ SameDelegate(s, s_entry)
    /\ s.params.unsat_core = "True"
    /\ ZTrackedTags(s) # {}

\* C19: unsat-core tracking is one-way.  track_unsat starts false; while it
\* is false no formula has been tagged and the delegate was never given
\* unsat_core = True; it becomes true only in a set() that gives the delegate
\* unsat_core = True, and every such set() makes it true; no step makes it
\* false again: a set(unsat_core=False) reaches the delegate and leaves
\* track_unsat as it was, and an add() made while it is true is tagged.
C19_WhileOff ==
    ~track_unsat =>
        /\ num_constraints = 0
        /\ Tagged(s) = {}
        /\ s.params.unsat_core # "True"

C19_Step ==
    /\ track_unsat => track_unsat'
    /\ (~track_unsat /\ track_unsat') =>
           /\ pc = "idle"
           /\ s' = ZSet(s, "unsat_core=True")
    /\ (pc = "idle" /\ s'.params.unsat_core = "True"
          /\ s.params.unsat_core # "True") => track_unsat'
    /\ (pc = "idle" /\ s'.params.unsat_core = "False"
          /\ s.params.unsat_core # "False") =>
           /\ track_unsat' = track_unsat
           /\ s' = ZSet(s, "unsat_core=False")
    /\ (pc = "idle" /\ ret' = Return("add", "None") /\ track_unsat) =>
           s'.asserts[Len(s'.asserts)].tag # NoTag

C19_TrackingOneWay ==
    ~track_unsat /\ [] C19_WhileOff /\ [][C19_Step]_vars

\* C19 witness: after set(unsat_core=True) and set(unsat_core=False) the
\* delegate has unsat_core = False, track_unsat is still true, and the add()
\* that followed was tagged.
C19_Witness ==
    /\ ret = Return("add", "None")
    /\ track_unsat
    /\ s.params.unsat_core = "False"
    /\ s.asserts[Len(s.asserts)].tracked
====
